---- MODULE Spec2Model ----
(***************************************************************************)
(* Model of the baseline shop CLI (src/apps/baseline): the session         *)
(* manager (log_in_user, log_out_user), the identity resolver              *)
(* (_get_logged_in_user_id) and the cart engine (add_item_to_cart,         *)
(* remove_item_from_cart, update_item_in_cart), run as independent CLI     *)
(* invocations against one SQLite file and one session file.               *)
(*                                                                         *)
(* Every invocation is a process walking through the statements of its     *)
(* handler.  A step is one access to shared state: a file-system call on   *)
(* the session file, one SQL statement, or a commit.  SQLite admits one    *)
(* write transaction at a time; a write statement takes the write lock,    *)
(* which its connection keeps until it commits or rolls back, and readers  *)
(* see committed data only.                                                *)
(***************************************************************************)
EXTENDS Integers, Sequences, FiniteSets, TLC

(* ------------------------------ bounds --------------------------------- *)

\* number of terminals issuing commands against the same store
NumProcs == 2

\* number of `auth` invocations (login, logout) started in one behaviour
MaxAuthCalls == 4

\* number of session tokens uuid4() is asked for in one behaviour
MaxTokens == 3

\* largest quantity a cart line is allowed to reach in the model
MaxQty == 2

\* number of `auth` invocations started in one behaviour of the terminals
\* that shop as well
MaxShopAuthCalls == 2

Procs == 1..NumProcs

\* inputs of `auth login`: the two seeded users, an unknown name, and for
\* each user the right password and another user's password
Usernames == {"joe", "emily", "nobody"}
Passwords == {"admin1234", "ilovejoe"}

\* inputs of the cart commands: a seeded product and an id that is in no row;
\* the quantities of add are unchecked, those of update include the refused 0
ProductIdInputs == {1}
MissingProductIds == {4}

\* the products the catalogue owner takes off sale
Discontinued == {1}
QuantityInputs == {-1, 0, 1, 2}
UpdateQuantityInputs == {0, 1, 2}

(* ------------------------------ tables --------------------------------- *)

\* populate_users_table: AUTOINCREMENT gives joe 1 and emily 2
users ==
    { [user_id |-> 1, username |-> "joe", password |-> "admin1234"],
      [user_id |-> 2, username |-> "emily", password |-> "ilovejoe"] }

UserIds == { r.user_id : r \in users }

\* populate_products_table: three rows, is_active DEFAULT 1
InitialProducts ==
    { [product_id |-> i, is_active |-> 1] : i \in {1, 2, 3} }

\* `None`, the resolver's "no identity" and fetchone()'s "no row"
NoUser == 0

VARIABLES
    products,   \* products table: rows [product_id, is_active]
    sessions,   \* user_login_status table (committed): rows [user_id, status, auth_token]
    carts,      \* active_carts table (committed): rows [user_id, product_id, quantity]
    artifact,   \* the .tmp_auth file: [exists, content]; content is <<>> or <<token>>
    nextToken,  \* number of tokens uuid4() has handed out
    authCalls,  \* `auth` invocations started so far
    cmd,        \* per process: the command it runs and its arguments
    pc,         \* per process: the statement it is at
    tok,        \* per process: session_token_uuid (login) or session_token (resolver)
    uid,        \* per process: user_id
    pending,    \* per process: the uncommitted writes of its connection
    rowcount,   \* per process: cursor.rowcount of its statement
    fd,         \* per process: the session file it holds open for writing
    ret,        \* per process: what the invocation that ended in the last step handed back
    state,      \* history: each user's state in the LOGGED_OUT/LOGGED_IN machine
    minted,     \* history: per user, the tokens of its committed logins, in order
    ledger,     \* history: per cart line, the quantity sequential replay gives
    solo,       \* history: the process running an invocation that overlapped no other step, or 0
    soloLogouts, \* history: the solo logouts that returned since any other invocation ended (2 for more)
    raced,      \* history: per process, another add wrote its cart line since its add began
    touched,    \* history: per process, its invocation has written or removed the session file
    seen,       \* history: per process, the token its resolver looked up in the store
    lastLogin   \* history: the token of the login that committed last, 0 before the first

vars ==
    << products, sessions, carts, artifact, nextToken, authCalls, cmd, pc, tok, uid,
       pending, rowcount, fd, ret, state, minted, ledger, solo, soloLogouts, raced,
       touched, seen, lastLogin >>

store == << products, sessions, carts >>
history ==
    << state, minted, ledger, solo, soloLogouts, raced, touched, seen, lastLogin >>

(* --------------------------- SQL, as operators -------------------------- *)

\* SELECT user_id, username, password FROM users WHERE username = ?
SelectUser(username) == { r \in users : r.username = username }

\* mutant: the password is not compared
LoginRejected_NameOnly(username, password) == SelectUser(username) = {}

\* user is None or user["password"] != password
LoginRejected(username, password) ==
    \A r \in SelectUser(username) : r.password # password

\* mutant: a plain INSERT that keeps the row in conflict
UpsertSession_InsertOnly(rows, user_id, token) ==
    rows \cup { [user_id |-> user_id, status |-> "LOGGED_IN", auth_token |-> token] }

\* INSERT INTO user_login_status ... ON CONFLICT(user_id) DO UPDATE SET ...
UpsertSession(rows, user_id, token) ==
    { r \in rows : r.user_id # user_id }
        \cup { [user_id |-> user_id, status |-> "LOGGED_IN", auth_token |-> token] }

\* mutant: the DELETE matches no row
DeleteSession_KeepsRow(rows, user_id) == rows

\* DELETE FROM user_login_status WHERE user_id = ?
DeleteSession(rows, user_id) == { r \in rows : r.user_id # user_id }

\* mutant: the WHERE clause does not compare the token
SelectSessionUser_AnyToken(rows, token) ==
    { r.user_id : r \in { s \in rows : s.status = "LOGGED_IN" } }

\* SELECT user_id FROM user_login_status WHERE auth_token = ? AND status = 'LOGGED_IN'
SelectSessionUser(rows, token) ==
    { r.user_id : r \in { s \in rows : s.auth_token = token /\ s.status = "LOGGED_IN" } }

\* mutant: the EXISTS clause does not test is_active
ProductIsActive_AnyFlag(rows, product_id) ==
    \E r \in rows : r.product_id = product_id

\* EXISTS (SELECT 1 FROM products where product_id = :product_id and is_active=1)
ProductIsActive(rows, product_id) ==
    \E r \in rows : r.product_id = product_id /\ r.is_active = 1

\* EXISTS (SELECT 1 FROM users where user_id = :user_id)
UserExists(user_id) == \E r \in users : r.user_id = user_id

\* the rows of one cart line (PRIMARY KEY (user_id, product_id))
CartLine(rows, user_id, product_id) ==
    { r \in rows : r.user_id = user_id /\ r.product_id = product_id }

\* mutant: the column has no CHECK constraint
QuantityCheck_Off(quantity) == TRUE

\* quantity INTEGER NOT NULL CHECK(quantity > 0)
QuantityCheck(quantity) == quantity > 0

\* the row the add statement writes: the inserted row, or on conflict the
\* existing row with quantity = quantity + excluded.quantity
AddedRow(rows, user_id, product_id, quantity) ==
    LET old == CartLine(rows, user_id, product_id)
        q == IF old = {} THEN quantity
             ELSE (CHOOSE r \in old : TRUE).quantity + quantity
    IN  [user_id |-> user_id, product_id |-> product_id, quantity |-> q]

\* INSERT INTO active_carts ... ON CONFLICT (user_id, product_id) DO UPDATE
UpsertCartLine(rows, user_id, product_id, quantity) ==
    (rows \ CartLine(rows, user_id, product_id))
        \cup { AddedRow(rows, user_id, product_id, quantity) }

\* mutant: the DELETE matches no row
DeleteCartLine_KeepsRow(rows, user_id, product_id) == rows

\* DELETE FROM active_carts WHERE user_id = :user_id AND product_id = :product_id
DeleteCartLine(rows, user_id, product_id) == rows \ CartLine(rows, user_id, product_id)

\* mutant: the WHERE clause does not compare the user
UpdateCartLine_AnyUser(rows, user_id, product_id, quantity) ==
    { IF r.product_id = product_id
        THEN [r EXCEPT !.quantity = quantity] ELSE r : r \in rows }

\* UPDATE active_carts SET quantity = :quantity WHERE user_id = ... AND product_id = ...
UpdateCartLine(rows, user_id, product_id, quantity) ==
    { IF r \in CartLine(rows, user_id, product_id)
        THEN [r EXCEPT !.quantity = quantity] ELSE r : r \in rows }

\* mutant: the quantity is not looked at before the UPDATE
UpdateRejected_Never(quantity) == FALSE

\* if quantity < 1: return, in update_item_in_cart
UpdateRejected(quantity) == quantity < 1

\* mutant: the handler goes on without an identity
NotLoggedIn_Never(user_id) == FALSE

\* if (user_id := _get_logged_in_user_id()) is None: return, in the cart handlers
NotLoggedIn(user_id) == user_id = NoUser

(* ---------------------- connections and the write lock ------------------ *)

\* a connection with no open write transaction
NoWrites == [open |-> FALSE, sessions |-> {}, carts |-> {}]

\* the write transaction a statement opens: the tables as it leaves them
Writes(s, c) == [open |-> TRUE, sessions |-> s, carts |-> c]

\* mutant: write transactions do not exclude each other
CanWrite_NoLock(p) == TRUE

\* SQLite grants the write lock when no other connection holds it
CanWrite(p) == \A q \in Procs \ {p} : ~pending[q].open

(* ------------------------------ helpers --------------------------------- *)

NoCmd == [op |-> "none", username |-> "", password |-> "", product_id |-> 0, quantity |-> 0]

LoginCmd(username, password) ==
    [NoCmd EXCEPT !.op = "login", !.username = username, !.password = password]

LogoutCmd == [NoCmd EXCEPT !.op = "logout"]

CartCmd(op, product_id, quantity) ==
    [NoCmd EXCEPT !.op = op, !.product_id = product_id, !.quantity = quantity]

Absent == [exists |-> FALSE, content |-> << >>]

Running(p) == pc[p] # "idle"

Lines ==
    UserIds \X ({ r.product_id : r \in InitialProducts } \cup ProductIdInputs
                    \cup MissingProductIds)

\* the quantity of cart line (user_id, product_id), 0 when there is no row
Quantity(rows, user_id, product_id) ==
    LET l == CartLine(rows, user_id, product_id)
    IN  IF l = {} THEN 0 ELSE (CHOOSE r \in l : TRUE).quantity

\* the commands of the session manager: `auth login`, `auth logout`
SessionCommands ==
    { LoginCmd(n, w) : n \in Usernames, w \in Passwords } \cup { LogoutCmd }

\* the commands of the cart engine
CartCommands ==
    { CartCmd("add", i, q) : i \in ProductIdInputs, q \in QuantityInputs }
        \cup { CartCmd("add", i, 1) : i \in MissingProductIds }
        \cup { CartCmd("remove", i, 0) : i \in ProductIdInputs }
        \cup { CartCmd("update", i, q) : i \in ProductIdInputs, q \in UpdateQuantityInputs }

Errors == {"FileNotFoundError", "IntegrityError", "OperationalError"}

ResolverLabels == {"resolve_exists", "resolve_read", "resolve_select"}
StatementLabels ==
    {"login_upsert", "logout_delete", "add_stmt", "remove_stmt", "update_stmt"}
CommitLabels ==
    {"login_commit", "logout_commit", "add_commit", "remove_commit", "update_commit"}

(* ------------------------------- Init ----------------------------------- *)

\* the state db_setup() leaves: seeded users and products, no session, no
\* cart line, no session file; every user LOGGED_OUT
Init ==
    /\ products = InitialProducts
    /\ sessions = {}
    /\ carts = {}
    /\ artifact = Absent
    /\ nextToken = 0
    /\ authCalls = 0
    /\ cmd = [p \in Procs |-> NoCmd]
    /\ pc = [p \in Procs |-> "idle"]
    /\ tok = [p \in Procs |-> 0]
    /\ uid = [p \in Procs |-> NoUser]
    /\ pending = [p \in Procs |-> NoWrites]
    /\ rowcount = [p \in Procs |-> 0]
    /\ fd = [p \in Procs |-> "closed"]
    /\ ret = [p \in Procs |-> "none"]
    /\ state = [u \in UserIds |-> "LOGGED_OUT"]
    /\ minted = [u \in UserIds |-> << >>]
    /\ ledger = [l \in Lines |-> 0]
    /\ solo = 0
    /\ soloLogouts = 0
    /\ raced = [p \in Procs |-> FALSE]
    /\ touched = [p \in Procs |-> FALSE]
    /\ seen = [p \in Procs |-> 0]
    /\ lastLogin = 0

\* the state one `auth login` of a seeded user leaves behind db_setup(): its
\* Session Status row and the session file hold the first token
InitLoggedIn ==
    \E r \in users :
        /\ products = InitialProducts
        /\ sessions = UpsertSession({}, r.user_id, 1)
        /\ carts = {}
        /\ artifact = [exists |-> TRUE, content |-> << 1 >>]
        /\ nextToken = 1
        /\ authCalls = 0
        /\ cmd = [p \in Procs |-> NoCmd]
        /\ pc = [p \in Procs |-> "idle"]
        /\ tok = [p \in Procs |-> 0]
        /\ uid = [p \in Procs |-> NoUser]
        /\ pending = [p \in Procs |-> NoWrites]
        /\ rowcount = [p \in Procs |-> 0]
        /\ fd = [p \in Procs |-> "closed"]
        /\ ret = [p \in Procs |-> "none"]
        /\ state = [u \in UserIds |-> IF u = r.user_id THEN "LOGGED_IN" ELSE "LOGGED_OUT"]
        /\ minted = [u \in UserIds |-> IF u = r.user_id THEN << 1 >> ELSE << >>]
        /\ ledger = [l \in Lines |-> 0]
        /\ solo = 0
        /\ soloLogouts = 0
        /\ raced = [p \in Procs |-> FALSE]
        /\ touched = [p \in Procs |-> FALSE]
        /\ seen = [p \in Procs |-> 0]
        /\ lastLogin = 1

(* --------------------------- control flow ------------------------------- *)

\* process p takes a step and stays in its invocation, at statement l
Jump(p, l) ==
    /\ pc' = [pc EXCEPT ![p] = l]
    /\ ret' = [q \in Procs |-> "none"]
    /\ solo' = IF solo = p THEN p ELSE 0
    /\ touched' = [touched EXCEPT ![p] =
                      \/ @
                      \/ pc[p] \in {"login_open", "login_write"}
                      \/ pc[p] = "logout_unlink" /\ artifact.exists]
    /\ seen' = [seen EXCEPT ![p] = IF pc[p] = "resolve_select" THEN tok[p] ELSE @]
    /\ UNCHANGED << cmd, soloLogouts, authCalls, lastLogin >>

Goto(p, l) == Jump(p, l) /\ UNCHANGED raced

\* the invocation of p ends: a return value, or the exception that left it
\* (db_conn rolls back and closes the connection on the way out)
Finish(p, result) ==
    /\ pc' = [pc EXCEPT ![p] = "idle"]
    /\ cmd' = [cmd EXCEPT ![p] = NoCmd]
    /\ tok' = [tok EXCEPT ![p] = 0]
    /\ uid' = [uid EXCEPT ![p] = NoUser]
    /\ pending' = [pending EXCEPT ![p] = NoWrites]
    /\ rowcount' = [rowcount EXCEPT ![p] = 0]
    /\ ret' = [q \in Procs |-> IF q = p THEN result ELSE "none"]
    /\ solo' = 0
    /\ soloLogouts' = IF solo = p /\ cmd[p].op = "logout" /\ result = "true"
                         THEN (IF soloLogouts = 0 THEN 1 ELSE 2) ELSE 0
    /\ raced' = [raced EXCEPT ![p] = FALSE]
    /\ touched' = [touched EXCEPT ![p] = FALSE]
    /\ seen' = [seen EXCEPT ![p] = 0]
    /\ lastLogin' = IF cmd[p].op = "login" /\ result = "true" THEN tok[p] ELSE lastLogin
    /\ UNCHANGED authCalls

\* main(): a terminal starts one command; idle terminals are interchangeable,
\* so the one with the lowest number takes it
Begin(p, c) ==
    /\ pc[p] = "idle"
    /\ \A q \in Procs : q < p => Running(q)
    /\ c.op \in {"login", "logout"} => authCalls < MaxAuthCalls
    /\ authCalls' = IF c.op \in {"login", "logout"} THEN authCalls + 1 ELSE authCalls
    /\ cmd' = [cmd EXCEPT ![p] = c]
    /\ pc' = [pc EXCEPT ![p] = IF c.op = "login" THEN "login_select" ELSE "resolve_exists"]
    /\ ret' = [q \in Procs |-> "none"]
    /\ solo' = IF \A r \in Procs \ {p} : ~Running(r) THEN p ELSE 0
    /\ UNCHANGED << store, artifact, nextToken, tok, uid, pending, rowcount, fd,
                    state, minted, ledger, soloLogouts, raced, touched, seen, lastLogin >>

(* ------------------------- _get_logged_in_user_id ----------------------- *)

\* the resolver returns v to its caller, which goes on:
\*   log_out_user to the unlink; the cart handlers return when v is None
\*   ("User is not logged in"), update_item_in_cart also when quantity < 1
\*   ("Cannot update item quantity to less than 1 item"), and else run their
\*   statement
Resolved(p, v) ==
    /\ IF cmd[p].op = "logout"
         THEN /\ uid' = [uid EXCEPT ![p] = v]
              /\ tok' = [tok EXCEPT ![p] = 0]
              /\ Goto(p, "logout_unlink")
              /\ UNCHANGED << pending, rowcount, fd >>
         ELSE IF NotLoggedIn(v) \/ (cmd[p].op = "update" /\ UpdateRejected(cmd[p].quantity))
           THEN Finish(p, IF NotLoggedIn(v) THEN "not_logged_in" ELSE "rejected")
                /\ UNCHANGED fd
           ELSE /\ uid' = [uid EXCEPT ![p] = v]
                /\ tok' = [tok EXCEPT ![p] = 0]
                /\ Goto(p, IF cmd[p].op = "add" THEN "add_stmt"
                           ELSE IF cmd[p].op = "remove" THEN "remove_stmt"
                           ELSE "update_stmt")
                /\ UNCHANGED << pending, rowcount, fd >>
    /\ UNCHANGED << store, artifact, nextToken, state, minted, ledger >>

\* if not AUTH_LOCAL_SESSION_FILEPATH.exists(): return None
ResolveExists(p) ==
    /\ pc[p] = "resolve_exists"
    /\ IF ~artifact.exists
         THEN Resolved(p, NoUser)
         ELSE /\ Goto(p, "resolve_read")
              /\ UNCHANGED << store, artifact, nextToken, tok, uid, pending, rowcount,
                              fd, state, minted, ledger >>

\* open(..., "r") raises FileNotFoundError when the file is gone;
\* session_token = file.read().strip(); if not session_token: return None
\* (the file holds nothing or one token without white space, which strip() keeps)
ResolveRead(p) ==
    /\ pc[p] = "resolve_read"
    /\ IF ~artifact.exists
         THEN /\ Finish(p, "FileNotFoundError")
              /\ UNCHANGED << store, artifact, nextToken, fd, state, minted, ledger >>
         ELSE IF artifact.content = << >>
           THEN Resolved(p, NoUser)
           ELSE /\ tok' = [tok EXCEPT ![p] = artifact.content[1]]
                /\ Goto(p, "resolve_select")
                /\ UNCHANGED << store, artifact, nextToken, uid, pending, rowcount,
                                fd, state, minted, ledger >>

\* row = cursor.fetchone(); return row["user_id"] if row else None
ResolveSelect(p) ==
    /\ pc[p] = "resolve_select"
    /\ LET found == SelectSessionUser(sessions, tok[p])
       IN  Resolved(p, IF found = {} THEN NoUser ELSE CHOOSE u \in found : TRUE)

(* ------------------------------ log_in_user ----------------------------- *)

\* the SELECT on users and the credential check; on success uuid4()
LoginSelect(p) ==
    /\ pc[p] = "login_select"
    /\ IF LoginRejected(cmd[p].username, cmd[p].password)
         THEN /\ Finish(p, "false")
              /\ UNCHANGED << nextToken, fd >>
         ELSE /\ nextToken < MaxTokens
              /\ nextToken' = nextToken + 1
              /\ tok' = [tok EXCEPT ![p] = nextToken + 1]
              /\ uid' = [uid EXCEPT ![p] =
                            (CHOOSE r \in SelectUser(cmd[p].username) : TRUE).user_id]
              /\ Goto(p, "login_upsert")
              /\ UNCHANGED << pending, rowcount, fd >>
    /\ UNCHANGED << store, artifact, state, minted, ledger >>

\* the UPSERT into user_login_status, inside the connection's transaction
LoginUpsert(p) ==
    /\ pc[p] = "login_upsert"
    /\ CanWrite(p)
    /\ pending' = [pending EXCEPT ![p] =
                      Writes(UpsertSession(sessions, uid[p], tok[p]), carts)]
    /\ Goto(p, "login_open")
    /\ UNCHANGED << store, artifact, nextToken, tok, uid, rowcount, fd,
                    state, minted, ledger >>

\* open(AUTH_LOCAL_SESSION_FILEPATH, "w"): creates the file or truncates it
LoginOpen(p) ==
    /\ pc[p] = "login_open"
    /\ artifact' = [exists |-> TRUE, content |-> << >>]
    /\ fd' = [fd EXCEPT ![p] = "linked"]
    /\ Goto(p, "login_write")
    /\ UNCHANGED << store, nextToken, tok, uid, pending, rowcount, state, minted, ledger >>

\* file.write(str(session_token_uuid)), flushed when the with block closes the
\* file; a file unlinked since the open takes the bytes with it
LoginWrite(p) ==
    /\ pc[p] = "login_write"
    /\ artifact' = IF fd[p] = "linked"
                     THEN [exists |-> TRUE, content |-> << tok[p] >>]
                     ELSE artifact
    /\ fd' = [fd EXCEPT ![p] = "closed"]
    /\ Goto(p, "login_commit")
    /\ UNCHANGED << store, nextToken, tok, uid, pending, rowcount, state, minted, ledger >>

(* ------------------------------ log_out_user ---------------------------- *)

\* mutant: unlink() without missing_ok raises when the file is not there
LogoutUnlink_NotMissingOk(p) ==
    /\ pc[p] = "logout_unlink"
    /\ artifact' = Absent
    /\ fd' = [q \in Procs |-> IF fd[q] = "linked" THEN "orphan" ELSE fd[q]]
    /\ IF ~artifact.exists
         THEN Finish(p, "FileNotFoundError")
         ELSE IF uid[p] # NoUser
           THEN /\ Goto(p, "logout_delete")
                /\ UNCHANGED << tok, uid, pending, rowcount >>
           ELSE Finish(p, "true")
    /\ UNCHANGED << store, nextToken, state, minted, ledger >>

\* AUTH_LOCAL_SESSION_FILEPATH.unlink(missing_ok=True); if user_id: ...
LogoutUnlink(p) ==
    /\ pc[p] = "logout_unlink"
    /\ artifact' = Absent
    /\ fd' = [q \in Procs |-> IF fd[q] = "linked" THEN "orphan" ELSE fd[q]]
    /\ IF uid[p] # NoUser
         THEN /\ Goto(p, "logout_delete")
              /\ UNCHANGED << tok, uid, pending, rowcount >>
         ELSE /\ Finish(p, "true")
    /\ UNCHANGED << store, nextToken, state, minted, ledger >>

\* DELETE FROM user_login_status WHERE user_id = ?
LogoutDelete(p) ==
    /\ pc[p] = "logout_delete"
    /\ CanWrite(p)
    /\ pending' = [pending EXCEPT ![p] = Writes(DeleteSession(sessions, uid[p]), carts)]
    /\ Goto(p, "logout_commit")
    /\ UNCHANGED << store, artifact, nextToken, tok, uid, rowcount, fd,
                    state, minted, ledger >>

(* ------------------------------ cart handlers --------------------------- *)

\* the quantity replaying add(product_id, quantity) on a line of quantity n gives
Replayed(n, product_id, quantity) ==
    IF /\ \E r \in products : r.product_id = product_id /\ r.is_active = 1
       /\ n + quantity > 0
      THEN n + quantity ELSE n

\* add_item_to_cart: the conditional INSERT ... ON CONFLICT DO UPDATE.
\* No row is written when the product is missing or inactive; a row the CHECK
\* constraint refuses raises sqlite3.IntegrityError, which leaves the handler.
AddStmt(p) ==
    LET u == uid[p]
        i == cmd[p].product_id
        q == cmd[p].quantity
        eligible == ProductIsActive(products, i) /\ UserExists(u)
        row == AddedRow(carts, u, i, q)
    IN  /\ pc[p] = "add_stmt"
        /\ CanWrite(p)
        /\ eligible => row.quantity <= MaxQty
        /\ IF ~eligible
             THEN /\ pending' = [pending EXCEPT ![p] = Writes(sessions, carts)]
                  /\ rowcount' = [rowcount EXCEPT ![p] = 0]
                  /\ Goto(p, "add_commit")
                  /\ UNCHANGED << tok, uid >>
             ELSE IF ~QuantityCheck(row.quantity)
               THEN Finish(p, "IntegrityError")
               ELSE /\ pending' = [pending EXCEPT ![p] =
                                      Writes(sessions, UpsertCartLine(carts, u, i, q))]
                    /\ rowcount' = [rowcount EXCEPT ![p] = 1]
                    /\ Jump(p, "add_commit")
                    /\ raced' = [r \in Procs |->
                                    \/ raced[r]
                                    \/ r # p /\ cmd[r].op = "add"
                                             /\ cmd[r].product_id = i]
                    /\ UNCHANGED << tok, uid >>
        /\ ledger' = [ledger EXCEPT ![<< u, i >>] = Replayed(@, i, q)]
        /\ UNCHANGED << store, artifact, nextToken, fd, state, minted >>

\* remove_item_from_cart: DELETE FROM active_carts WHERE ...
RemoveStmt(p) ==
    LET u == uid[p]
        i == cmd[p].product_id
    IN  /\ pc[p] = "remove_stmt"
        /\ CanWrite(p)
        /\ pending' = [pending EXCEPT ![p] = Writes(sessions, DeleteCartLine(carts, u, i))]
        /\ rowcount' = [rowcount EXCEPT ![p] = Cardinality(CartLine(carts, u, i))]
        /\ Goto(p, "remove_commit")
        /\ ledger' = [ledger EXCEPT ![<< u, i >>] = 0]
        /\ UNCHANGED << store, artifact, nextToken, tok, uid, fd, state, minted >>

\* update_item_in_cart: UPDATE active_carts SET quantity = :quantity WHERE ...
UpdateStmt(p) ==
    LET u == uid[p]
        i == cmd[p].product_id
        q == cmd[p].quantity
        hit == CartLine(carts, u, i)
    IN  /\ pc[p] = "update_stmt"
        /\ CanWrite(p)
        /\ IF hit # {} /\ ~QuantityCheck(q)
             THEN Finish(p, "IntegrityError")
             ELSE /\ pending' = [pending EXCEPT ![p] =
                                    Writes(sessions, UpdateCartLine(carts, u, i, q))]
                  /\ rowcount' = [rowcount EXCEPT ![p] = Cardinality(hit)]
                  /\ Goto(p, "update_commit")
                  /\ UNCHANGED << tok, uid >>
        /\ ledger' = [ledger EXCEPT ![<< u, i >>] = IF @ > 0 /\ q > 0 THEN q ELSE @]
        /\ UNCHANGED << store, artifact, nextToken, fd, state, minted >>

(* --------------------------------- db_conn ------------------------------ *)

\* a write statement that finds the write lock held by another connection
\* for longer than the busy timeout raises sqlite3.OperationalError
\* ("database is locked"); db_conn rolls back and re-raises
StoreBusy(p) ==
    /\ pc[p] \in StatementLabels
    /\ ~CanWrite(p)
    /\ Finish(p, "OperationalError")
    /\ UNCHANGED << store, artifact, nextToken, fd, state, minted, ledger >>

\* conn.commit() on leaving the with block: the writes of the connection
\* become the committed tables, and the handler returns
Commit(p) ==
    /\ pc[p] \in CommitLabels
    /\ sessions' = pending[p].sessions
    /\ carts' = pending[p].carts
    /\ state' = IF cmd[p].op = "login" THEN [state EXCEPT ![uid[p]] = "LOGGED_IN"]
                ELSE IF cmd[p].op = "logout" THEN [state EXCEPT ![uid[p]] = "LOGGED_OUT"]
                ELSE state
    /\ minted' = IF cmd[p].op = "login"
                   THEN [minted EXCEPT ![uid[p]] = Append(@, tok[p])]
                   ELSE minted
    /\ Finish(p, IF cmd[p].op \in {"login", "logout"} THEN "true" ELSE "returned")
    /\ UNCHANGED << products, artifact, nextToken, fd, ledger >>

(* ------------------------------ environment ----------------------------- *)

\* the catalogue owner takes a product off sale (is_active = 0), in a write
\* transaction of its own; an invocation running meanwhile is overlapped by it
DeactivateProduct(i) ==
    /\ \A p \in Procs : ~pending[p].open
    /\ \E r \in products : r.product_id = i /\ r.is_active = 1
    /\ products' = { IF r.product_id = i THEN [r EXCEPT !.is_active = 0] ELSE r
                     : r \in products }
    /\ ret' = [q \in Procs |-> "none"]
    /\ solo' = 0
    /\ UNCHANGED << sessions, carts, artifact, nextToken, authCalls, cmd, pc, tok, uid,
                    pending, rowcount, fd, state, minted, ledger, soloLogouts, raced,
                    touched, seen, lastLogin >>

(* ------------------------------ specification --------------------------- *)

\* the steps every handler shares: the resolver, and db_conn
Shared(p) ==
    \/ ResolveExists(p)
    \/ ResolveRead(p)
    \/ ResolveSelect(p)
    \/ StoreBusy(p)
    \/ Commit(p)

LoginSteps(p) ==
    \/ LoginSelect(p)
    \/ LoginUpsert(p)
    \/ LoginOpen(p)
    \/ LoginWrite(p)

LogoutSteps(p) ==
    \/ LogoutUnlink(p)
    \/ LogoutDelete(p)

CartSteps(p) ==
    \/ AddStmt(p)
    \/ RemoveStmt(p)
    \/ UpdateStmt(p)

\* terminals running the session manager
SessionNext ==
    \/ \E p \in Procs, c \in SessionCommands : Begin(p, c)
    \/ \E p \in Procs : Shared(p) \/ LoginSteps(p) \/ LogoutSteps(p)

SpecSession == Init /\ [][SessionNext]_vars

\* one terminal running the session manager, each command after the one
\* before it has ended
SequenceNext ==
    \/ \E p \in Procs, c \in SessionCommands :
          /\ \A q \in Procs : ~Running(q)
          /\ Begin(p, c)
    \/ \E p \in Procs :
          \/ ResolveExists(p) \/ ResolveRead(p) \/ ResolveSelect(p) \/ Commit(p)
          \/ LoginSteps(p) \/ LogoutSteps(p)

SpecSequence == Init /\ [][SequenceNext]_vars

\* the commands of `auth login`
LoginCommands == { LoginCmd(n, w) : n \in Usernames, w \in Passwords }

\* terminals that only log in
LoginNext ==
    \/ \E p \in Procs, c \in LoginCommands : Begin(p, c)
    \/ \E p \in Procs : LoginSteps(p) \/ StoreBusy(p) \/ Commit(p)

SpecLogin == Init /\ [][LoginNext]_vars

\* terminals running the cart engine, while the catalogue owner takes products off sale
CartNext ==
    \/ \E p \in Procs, c \in CartCommands : Begin(p, c)
    \/ \E p \in Procs : Shared(p) \/ CartSteps(p)
    \/ \E i \in Discontinued : DeactivateProduct(i)

SpecCart == InitLoggedIn /\ [][CartNext]_vars

\* the commands of terminals that shop and log in and out: the successful
\* logins, logout, and one command of each cart handler
ShopCommands ==
    { LoginCmd(r.username, r.password) : r \in users }
        \cup { LogoutCmd }
        \cup { CartCmd("add", i, 1) : i \in ProductIdInputs }
        \cup { CartCmd("remove", i, 0) : i \in ProductIdInputs }
        \cup { CartCmd("update", i, MaxQty) : i \in ProductIdInputs }

\* terminals running the cart engine and the session manager side by side
ShopNext ==
    \/ \E p \in Procs, c \in ShopCommands :
          /\ c.op \in {"login", "logout"} => authCalls < MaxShopAuthCalls
          /\ Begin(p, c)
    \/ \E p \in Procs : Shared(p) \/ LoginSteps(p) \/ LogoutSteps(p) \/ CartSteps(p)

SpecShop == InitLoggedIn /\ [][ShopNext]_vars

(* ------------------------------- claims --------------------------------- *)

\* no connection has an open write transaction
Quiet == \A p \in Procs : ~pending[p].open

\* C1: whenever no add is mid-transaction, the quantity of every cart line is
\* what replaying the committed operations one after another gives: for adds
\* of positive quantities on an active product, the quantity before them plus
\* the sum of all of them, however the invocations interleaved.
C1_AddsSumUp ==
    Quiet => \A l \in Lines : Quantity(carts, l[1], l[2]) = ledger[l]

\* two overlapping adds of positive quantities on the same line: the first has
\* committed, the second has written the sum of both on top of it
C1_Witness ==
    \E p \in Procs :
        /\ pc[p] = "add_commit"
        /\ raced[p]
        /\ rowcount[p] = 1
        /\ cmd[p].quantity > 0
        /\ \E n \in 1..MaxQty :
              /\ Quantity(carts, uid[p], cmd[p].product_id) = n
              /\ Quantity(pending[p].carts, uid[p], cmd[p].product_id)
                    = n + cmd[p].quantity

\* C2: each user has at most one Session Status row; the row holds the token
\* of the user's last committed login, and the token of every earlier login
\* of that user is in no row, so it resolves to no identity.
C2_TokenRotation ==
    \A u \in UserIds :
        /\ Cardinality({ r \in sessions : r.user_id = u }) <= 1
        /\ \A r \in sessions :
              r.user_id = u => minted[u] # << >> /\ r.auth_token = minted[u][Len(minted[u])]
        /\ \A k \in 1..(Len(minted[u]) - 1) :
              \A r \in sessions : r.auth_token # minted[u][k]

\* a user has logged in twice, and its row holds the second token
C2_Witness ==
    \E u \in UserIds :
        /\ Len(minted[u]) >= 2
        /\ \E r \in sessions : r.user_id = u /\ r.auth_token = minted[u][2]

\* C3: a Session Status row for user U exists exactly when U is LOGGED_IN in
\* the state machine driven by the logins and logouts that have completed.
C3_RowIffLoggedIn ==
    \A u \in UserIds :
        (\E r \in sessions : r.user_id = u) <=> state[u] = "LOGGED_IN"

\* one user has logged in and out again while the other is still logged in
C3_Witness ==
    \E u, v \in UserIds :
        /\ minted[u] # << >>
        /\ state[u] = "LOGGED_OUT"
        /\ state[v] = "LOGGED_IN"
        /\ \A r \in sessions : r.user_id = v

\* C4: a logout that overlaps no other invocation returns true whatever the
\* state it starts in, and when the invocation before it was such a logout
\* too, none of its steps changes the session file or a Session Status row.
C4_LogoutIdempotent ==
    [][\A p \in Procs :
          (cmd[p].op = "logout" /\ solo = p) =>
              /\ pc'[p] = "idle" => ret'[p] = "true"
              /\ soloLogouts > 0 => artifact' = artifact /\ sessions' = sessions]_vars

\* a second logout in a row has returned true, in a state where a login had
\* left a Session Status row behind
C4_Witness ==
    /\ soloLogouts = 2
    /\ \E p \in Procs : ret[p] = "true"
    /\ sessions # {}

\* C5: a login whose username is unknown or whose password is not the user's
\* returns false in a step that changes no Session Status row, no cart line
\* and not the session file.
C5_FailedLoginNoChange ==
    [][\A p \in Procs :
          ( /\ cmd[p].op = "login"
            /\ pc'[p] # pc[p]
            /\ ~\E r \in users : /\ r.username = cmd[p].username
                                 /\ r.password = cmd[p].password ) =>
              /\ pc'[p] = "idle"
              /\ ret'[p] = "false"
              /\ sessions' = sessions
              /\ carts' = carts
              /\ artifact' = artifact]_vars

\* a login has just failed while a session exists: its row and file are in place
C5_Witness ==
    /\ \E p \in Procs : ret[p] = "false"
    /\ sessions # {}
    /\ artifact.exists
    /\ artifact.content # << >>

\* what the session file and the Session Status rows resolve to
Identity ==
    IF /\ artifact.exists
       /\ artifact.content # << >>
       /\ \E r \in sessions : r.auth_token = artifact.content[1] /\ r.status = "LOGGED_IN"
      THEN (CHOOSE r \in sessions :
                r.auth_token = artifact.content[1] /\ r.status = "LOGGED_IN").user_id
      ELSE NoUser

\* the resolver of p hands a value back to its caller in this step
ResolverReturns(p) ==
    /\ pc[p] \in ResolverLabels
    /\ pc'[p] \notin ResolverLabels
    /\ ret'[p] # "FileNotFoundError"

\* C6: when the resolver returns and the session file still holds what the
\* resolver read from it, it returns user U exactly when the file exists, is
\* not empty and holds the token of U's Session Status row, and no identity
\* otherwise; no step of the resolver changes the store or the file.
C6_ResolverResult ==
    [][\A p \in Procs :
          /\ ( /\ ResolverReturns(p)
               /\ pc[p] = "resolve_select" =>
                      artifact = [exists |-> TRUE, content |-> << tok[p] >>] ) =>
                 /\ pc'[p] # "idle" => uid'[p] = Identity
                 /\ pc'[p] = "idle" => Identity = NoUser \/ cmd[p].op = "update"
          /\ (pc[p] \in ResolverLabels /\ pc'[p] # pc[p]) =>
                 /\ sessions' = sessions
                 /\ carts' = carts
                 /\ products' = products
                 /\ artifact' = artifact]_vars

\* the resolver has returned no identity although the session file holds a
\* token: the token is in no Session Status row
C6_Witness ==
    \E p \in Procs :
        /\ pc[p] = "logout_unlink"
        /\ uid[p] = NoUser
        /\ solo = p
        /\ artifact.exists
        /\ artifact.content # << >>
        /\ \A r \in sessions : r.auth_token # artifact.content[1]

\* C7: the resolver never raises on a missing session file: no invocation
\* ends with FileNotFoundError.
C7_ResolverNeverRaises ==
    \A p \in Procs : ret[p] # "FileNotFoundError"

\* C8: every cart line, committed or written by an open transaction, has a
\* quantity above 0.
C8_PositiveQuantity ==
    /\ \A r \in carts : r.quantity > 0
    /\ \A p \in Procs : \A r \in pending[p].carts : r.quantity > 0

\* the store has just refused a quantity, and a cart line is stored
C8_Witness ==
    /\ \E p \in Procs : ret[p] = "IntegrityError"
    /\ carts # {}

\* C9: when an add on an active product drives the quantity of its cart line
\* to zero or below, no line for that user and product exists after the step.
C9_DrivenToZeroDeleted ==
    [][\A p \in Procs :
          ( /\ pc[p] = "add_stmt"
            /\ pc'[p] # pc[p]
            /\ ret'[p] # "OperationalError"
            /\ \E r \in products : r.product_id = cmd[p].product_id /\ r.is_active = 1
            /\ Quantity(carts, uid[p], cmd[p].product_id) + cmd[p].quantity <= 0 ) =>
              /\ CartLine(carts', uid[p], cmd[p].product_id) = {}
              /\ CartLine(pending'[p].carts, uid[p], cmd[p].product_id) = {}]_vars

\* C10: an add statement that runs when its product is in no row or inactive
\* affects no row: rowcount is 0, its transaction holds the cart lines as
\* they were, no constraint is checked, and its commit changes no cart line.
C10_InactiveProductNoRow ==
    [][\A p \in Procs :
          /\ ( /\ pc[p] = "add_stmt"
               /\ pc'[p] # pc[p]
               /\ ~\E r \in products :
                      r.product_id = cmd[p].product_id /\ r.is_active = 1 ) =>
                 /\ carts' = carts
                 /\ pc'[p] = "idle" => ret'[p] = "OperationalError"
                 /\ pc'[p] # "idle" => rowcount'[p] = 0 /\ pending'[p].carts = carts
          /\ (pc[p] = "add_commit" /\ rowcount[p] = 0 /\ pc'[p] # pc[p]) =>
                 carts' = carts]_vars

\* an add on a product taken off sale has run its statement: rowcount is 0 and
\* the line an earlier add created is as it was
C10_Witness ==
    \E p \in Procs :
        /\ pc[p] = "add_commit"
        /\ rowcount[p] = 0
        /\ \E r \in products : r.product_id = cmd[p].product_id /\ r.is_active = 0
        /\ Quantity(carts, uid[p], cmd[p].product_id) > 0
        /\ pending[p].carts = carts

\* C11: an update with a quantity of 1 or more whose product is not on sale
\* changes the quantity of its cart line in none of its steps.  (Stated for
\* an update that no other step has overlapped: its product was off sale
\* when it began.)
C11_InactiveUpdateNoChange ==
    [][\A p \in Procs :
          ( /\ cmd[p].op = "update"
            /\ cmd[p].quantity >= 1
            /\ solo = p
            /\ ~ProductIsActive(products, cmd[p].product_id)
            /\ pc'[p] # pc[p] ) =>
              Quantity(carts', uid[p], cmd[p].product_id)
                  = Quantity(carts, uid[p], cmd[p].product_id)]_vars

\* C12: an update with a quantity below 1 is rejected before its statement:
\* none of its steps changes a cart line, with or without a line for its user
\* and product.  An update with a quantity q of 1 or more writes q into the
\* line when the line exists and writes nothing when it does not, and its
\* commit leaves the line with exactly q, or without a row as before.
C12_UpdateContract ==
    [][\A p \in Procs :
          (cmd[p].op = "update" /\ pc'[p] # pc[p]) =>
              LET u == uid[p]
                  i == cmd[p].product_id
                  q == cmd[p].quantity
                  old == Quantity(carts, u, i)
              IN  /\ q < 1 =>
                        /\ carts' = carts
                        /\ pc'[p] \notin {"update_stmt", "update_commit"}
                        /\ pc'[p] = "idle" =>
                               ret'[p] \in {"rejected", "not_logged_in"}
                  /\ (q >= 1 /\ pc'[p] = "update_commit") =>
                        /\ rowcount'[p] = IF old > 0 THEN 1 ELSE 0
                        /\ Quantity(pending'[p].carts, u, i) = IF old > 0 THEN q ELSE 0
                        /\ carts' = carts
                  /\ pc[p] = "update_commit" =>
                        Quantity(carts', u, i) = IF rowcount[p] = 1 THEN q ELSE 0]_vars

\* one update has written a new quantity into an existing line, and an update
\* to a quantity below 1 on the same line has just been rejected
C12_Witness ==
    \E p, r \in Procs :
        /\ ret[r] = "rejected"
        /\ pc[p] = "update_commit"
        /\ rowcount[p] = 1
        /\ Quantity(carts, uid[p], cmd[p].product_id) > 0
        /\ Quantity(pending[p].carts, uid[p], cmd[p].product_id) = cmd[p].quantity
        /\ Quantity(carts, uid[p], cmd[p].product_id) # cmd[p].quantity

\* C13: the statement of a remove leaves no row for its user and product in
\* its transaction, and affects one row when the line exists and none when
\* it does not; its commit leaves no line, and changes no cart line at all
\* when there was none.  A remove that overlaps no other invocation ends
\* without an error.
C13_RemoveIdempotent ==
    [][\A p \in Procs :
          (cmd[p].op = "remove" /\ pc'[p] # pc[p]) =>
              LET u == uid[p]
                  i == cmd[p].product_id
              IN  /\ pc'[p] = "remove_commit" =>
                        /\ CartLine(pending'[p].carts, u, i) = {}
                        /\ rowcount'[p] = Cardinality(CartLine(carts, u, i))
                        /\ rowcount'[p] = 0 => pending'[p].carts = carts
                  /\ pc[p] = "remove_commit" =>
                        /\ CartLine(carts', u, i) = {}
                        /\ rowcount[p] = 0 => carts' = carts
                  /\ (solo = p /\ pc'[p] = "idle") => ret'[p] = "returned"]_vars

\* a remove running alone has deleted the row of an existing line in its
\* transaction
C13_Witness ==
    \E p \in Procs :
        /\ pc[p] = "remove_commit"
        /\ solo = p
        /\ rowcount[p] = 1
        /\ CartLine(carts, uid[p], cmd[p].product_id) # {}
        /\ CartLine(pending[p].carts, uid[p], cmd[p].product_id) = {}

\* the resolver of p takes its last step and the session file is absent, is
\* empty, or holds a token that is in no Session Status row
YieldsNoIdentity(p) ==
    \/ pc[p] = "resolve_exists" /\ ~artifact.exists
    \/ pc[p] = "resolve_read" /\ artifact.exists /\ artifact.content = << >>
    \/ pc[p] = "resolve_select" /\ \A r \in sessions : r.auth_token # tok[p]

\* C14: when the resolver of an add, remove or update yields no identity, the
\* handler returns in that step: it runs no statement, opens no write
\* transaction and leaves every cart line as it is; a cart handler reaches
\* its statement only with a user.
C14_NoIdentityNoMutation ==
    [][\A p \in Procs :
          (cmd[p].op \in {"add", "remove", "update"} /\ pc'[p] # pc[p]) =>
              /\ YieldsNoIdentity(p) =>
                    /\ pc'[p] = "idle"
                    /\ ret'[p] = "not_logged_in"
                    /\ carts' = carts
                    /\ pending' = pending
              /\ pc'[p] \in StatementLabels => uid'[p] \in UserIds]_vars

\* a cart command has just been refused for want of an identity: the session
\* file holds a token that is in no row, and a cart line is stored
C14_Witness ==
    /\ \E p \in Procs : ret[p] = "not_logged_in"
    /\ artifact.exists
    /\ artifact.content # << >>
    /\ \A r \in sessions : r.auth_token # artifact.content[1]
    /\ carts # {}

\* C15: the commit of an add, remove or update that changes a cart line of
\* user U happens in a state where U has a Session Status row.
C15_CartCommitHasSession ==
    [][\A p \in Procs :
          ( /\ cmd[p].op \in {"add", "remove", "update"}
            /\ pc[p] \in CommitLabels
            /\ pc'[p] = "idle"
            /\ carts' # carts ) =>
              /\ \E r \in sessions : r.user_id = uid[p]
              /\ \E r \in sessions' : r.user_id = uid[p]]_vars

\* C16: a login or logout that ends with a store error has neither written
\* nor removed the session file, and the step that raises leaves the Session
\* Status rows as they are.
C16_StoreErrorNoPartialWrite ==
    [][\A p \in Procs :
          ( /\ cmd[p].op \in {"login", "logout"}
            /\ pc'[p] = "idle"
            /\ ret'[p] = "OperationalError" ) =>
              /\ ~touched[p]
              /\ sessions' = sessions]_vars

\* every terminal is idle
AllIdle == \A p \in Procs : pc[p] = "idle"

\* C17: when logins, and nothing else, have run and all have ended, and one
\* or more of them committed, the session file holds the token of the login
\* that committed last, the Session Status row of its user holds the same
\* token, and the file resolves to that user.
C17_LastLoginWins ==
    (AllIdle /\ lastLogin # 0) =>
        /\ artifact = [exists |-> TRUE, content |-> << lastLogin >>]
        /\ \E u \in UserIds :
              /\ minted[u] # << >>
              /\ minted[u][Len(minted[u])] = lastLogin
              /\ \E r \in sessions : r.user_id = u /\ r.auth_token = lastLogin
              /\ Identity = u

\* logins of both users have committed and all have ended, and the login
\* that committed last is not the one whose token was minted last
C17_Witness ==
    /\ AllIdle
    /\ \A u \in UserIds : minted[u] # << >>
    /\ lastLogin # nextToken
    /\ lastLogin # 0

\* C18: the commit of a logout deletes no Session Status row but the one
\* holding the token its resolver looked up, and its unlink removes no file
\* holding the token a later login has committed into the row of its user.
C18_LogoutDeletesOnlyResolved ==
    [][\A p \in Procs :
          (cmd[p].op = "logout" /\ pc'[p] # pc[p]) =>
              /\ pc[p] = "logout_commit" =>
                    \A r \in sessions \ sessions' : r.auth_token = seen[p]
              /\ pc[p] = "logout_unlink" =>
                    ~\E r \in sessions :
                        /\ r.user_id = uid[p]
                        /\ r.auth_token # seen[p]
                        /\ artifact = [exists |-> TRUE, content |-> << r.auth_token >>]]_vars

\* C19: when every login and logout has ended, every Session Status row holds
\* the token stored in the session file.
C19_RowsHoldFileToken ==
    AllIdle =>
        \A r \in sessions :
            artifact = [exists |-> TRUE, content |-> << r.auth_token >>]

\* C19, amended: when logins and logouts run one after another have all
\* ended, the session file exists exactly when the Session Status row of the
\* login that committed last is still stored, and then it holds the token of
\* that row; the rows of other users survive with tokens the file does not hold.
C19_FileHoldsLastLogin ==
    AllIdle =>
        /\ artifact.exists =>
              /\ artifact.content = << lastLogin >>
              /\ \E r \in sessions : r.auth_token = lastLogin
        /\ ~artifact.exists => \A r \in sessions : r.auth_token # lastLogin

\* login(A), login(B), logout() have run: the file is gone and the row of A
\* is still stored
C19_Witness ==
    /\ AllIdle
    /\ ~artifact.exists
    /\ lastLogin # 0
    /\ sessions # {}
    /\ \E p \in Procs : ret[p] = "true"

\* C20: no step of an add, remove or update changes a Session Status row, a
\* product record or the session file, and its transaction and its commit
\* change at most the cart line of its user and product; no step of a login
\* or a logout changes a cart line or a product record.  (The users table is
\* written by no handler.)
C20_Frame ==
    [][\A p \in Procs :
          pc'[p] # pc[p] =>
              /\ cmd[p].op \in {"add", "remove", "update"} =>
                    /\ sessions' = sessions
                    /\ products' = products
                    /\ artifact' = artifact
                    /\ DeleteCartLine(carts', uid[p], cmd[p].product_id)
                          = DeleteCartLine(carts, uid[p], cmd[p].product_id)
                    /\ pending'[p].open =>
                          /\ pending'[p].sessions = sessions
                          /\ DeleteCartLine(pending'[p].carts, uid[p], cmd[p].product_id)
                                = DeleteCartLine(carts, uid[p], cmd[p].product_id)
              /\ cmd[p].op \in {"login", "logout"} =>
                    /\ carts' = carts
                    /\ products' = products
                    /\ pending'[p].open => pending'[p].carts = carts]_vars

\* an update has written a new quantity into the line of its user while the
\* other user has a line of the same product with another quantity
C20_Witness ==
    \E p \in Procs :
        /\ pc[p] = "update_commit"
        /\ rowcount[p] = 1
        /\ Quantity(carts, uid[p], cmd[p].product_id) # cmd[p].quantity
        /\ \E r \in carts :
              /\ r.user_id # uid[p]
              /\ r.product_id = cmd[p].product_id
              /\ r.quantity # cmd[p].quantity
              /\ r \in pending[p].carts

====
